---------------------------- MODULE Spec2Model ----------------------------
(***************************************************************************)
(* A model of the Benetech fine-tuning repository: the command line        *)
(* (main.py), the training driver (benetech_pl/train.py) and the data      *)
(* orchestrator, batch collator and training/evaluation module             *)
(* (benetech_decoder/modules.py).                                          *)
(*                                                                         *)
(* Three specifications share the variables:                               *)
(*   Spec         one run of main.py: parse_args, train(), and the         *)
(*                trainer's fit loop calling the module's hooks;           *)
(*   SpecData     the data orchestrator's interface (setup and the three   *)
(*                dataloader builders), called in any order;               *)
(*   SpecCollate  the collator as a pure function of a list of encoded     *)
(*                samples.                                                 *)
(*                                                                         *)
(* Conventions: Python None is the string "None"; a tensor is a record     *)
(* [shape, data]; a step's return value is a sequence, <<>> for None and   *)
(* <<v>> for the value v.                                                  *)
(***************************************************************************)
EXTENDS Naturals, Integers, Sequences, FiniteSets, TLC

VARIABLES
    pc,          \* position of the run: main, train() and the fit loop
    argv,        \* the command line: each flag's value, <<>> when it is not given
    config,      \* the configuration object of main.py
    seeded,      \* the seed handed to pl.seed_everything
    dm,          \* the BenetechDataModule
    loaders,     \* the data-loading pipelines built so far, by name
    logger,      \* the run name of the experiment logger, "None" without one
    monitored,   \* the metric names handed to load_logger_and_callbacks
    module,      \* the BenetechModule
    trainer,     \* the arguments of pl.Trainer
    optimizer,   \* what configure_optimizers returned
    files,       \* paths written by save_pretrained
    raised,      \* the exception that ended the run, "None" without one
    epoch,       \* the fit loop's epoch
    batch_idx,   \* the index of the next batch of the current loop
    trace,       \* what the last handler did, in order
    ret,         \* what the last step returned
    logged,      \* every metric name logged so far
    cin,         \* SpecCollate: the list of encoded samples
    cout         \* SpecCollate: the collator's result

vars == <<pc, argv, config, seeded, dm, loaders, logger, monitored, module,
          trainer, optimizer, files, raised, epoch, batch_idx,
          trace, ret, logged, cin, cout>>

None == "None"

-----------------------------------------------------------------------------
(* Bounds of the model.                                                    *)

\* samples in the train split
TrainSize == 2
\* samples in the validation split
ValSize == 3
\* longest text, in characters, of an encoded sample handed to the collator
MaxTextLen == 2
\* most encoded samples handed to the collator in one call
MaxCollate == 2

\* characters of a text
Vocab == {"a", "b"}
\* per-item patch counts of the encoded samples handed to the collator
PatchShapes == {1, 2}
\* images of the encoded samples handed to the collator
Images == {"img1", "img2"}
\* max_length values the collator is tried under
MaxLengths == {1, 2, 3}
\* values given on the command line
SeedArgs == {7}
BatchSizeArgs == {1, 2}
AccumulateArgs == {4}
MaxPatchesArgs == {2048}
\* model identifiers and save flags the driver is run with
ModelPaths == {"google/deplot", "google/pix2struct-base"}
SaveFlags == {TRUE, FALSE}
\* batch sizes and worker counts of the data orchestrator in SpecData
DataBatchSizes == {1, 2, 3}
DataWorkers == {0, 2, 4}
\* run names load_logger_and_callbacks may give
RunNames == {"run-1"}
\* losses the forward pass may give
Losses == {1, 2}

Min(a, b) == IF a <= b THEN a ELSE b
CeilDiv(a, b) == (a + b - 1) \div b

\* all sequences over S of length 0..n
SeqsUpTo(S, n) == UNION {[1..k -> S] : k \in 0..n}

-----------------------------------------------------------------------------
(* main.py                                                                 *)

\* main.py:6-30, the defaults
DefaultConfig ==
    [data_dir |-> "/data/bartley/gpu_test/bartley-benetech-resized/",
     model_save_dir |-> "/data/bartley/gpu_test/models/",
     model_path |-> "google/deplot",
     processor_path |-> "google/deplot",
     project |-> "Benetech",
     save_model |-> TRUE,
     max_patches |-> 1024,
     max_length |-> 512,
     batch_size |-> 3,
     epochs |-> 1,
     learning_rate |-> "1e-5",
     verbose |-> 2,
     num_workers |-> 4,
     seed |-> 0,
     accelerator |-> "gpu",
     fast_dev_run |-> FALSE,
     overfit_batches |-> 0,
     devices |-> 1,
     precision |-> 32,
     log_every_n_steps |-> 10,
     accumulate_grad_batches |-> 1]

Flags == {"fast_dev_run", "seed", "batch_size", "accumulate_grad_batches", "max_patches"}

\* the values a flag may be given; --fast_dev_run takes none (store_true)
ArgValues(flag) ==
    CASE flag = "fast_dev_run" -> {TRUE}
      [] flag = "seed" -> SeedArgs
      [] flag = "batch_size" -> BatchSizeArgs
      [] flag = "accumulate_grad_batches" -> AccumulateArgs
      [] flag = "max_patches" -> MaxPatchesArgs

\* a flag on the command line: <<>> when it is not given, <<v>> when given with v
Given(flag) == {<<>>} \cup {<<v>> : v \in ArgValues(flag)}

\* every command line
CommandLines ==
    [fast_dev_run : Given("fast_dev_run"), seed : Given("seed"),
     batch_size : Given("batch_size"),
     accumulate_grad_batches : Given("accumulate_grad_batches"),
     max_patches : Given("max_patches")]

\* main.py:34-38, the default add_argument gives each flag
ArgDefault(cfg, flag) ==
    CASE flag = "fast_dev_run" -> FALSE
      [] flag = "seed" -> cfg.seed
      [] flag = "batch_size" -> cfg.batch_size
      [] flag = "accumulate_grad_batches" -> cfg.accumulate_grad_batches
      [] flag = "max_patches" -> cfg.batch_size

\* main.py:39, parser.parse_args(): the namespace of the five flags
ParseNamespace(cfg, line) ==
    [k \in Flags |-> IF line[k] # <<>> THEN line[k][1] ELSE ArgDefault(cfg, k)]

\* main.py:32-45, parse_args: setattr(config, key, value) for every key of the namespace
parse_args(cfg, line) ==
    LET args == ParseNamespace(cfg, line)
    IN  [k \in DOMAIN cfg |-> IF k \in DOMAIN args THEN args[k] ELSE cfg[k]]

-----------------------------------------------------------------------------
(* benetech_decoder/modules.py: the dataset adapter and the data           *)
(* orchestrator                                                            *)

\* a tensor: its shape and its contents
Tensor(shape, data) == [shape |-> shape, data |-> data]

\* an attribute that was never assigned
Unset == [split |-> "unset"]

\* the text of the idx-th sample of a split (the imagefolder on disk)
TextAt(idx) == IF idx % 2 = 1 THEN <<"a">> ELSE <<"b", "a">>

\* load_dataset("imagefolder", ..., split=...)[idx]
RawItem(split, idx) == [image |-> split \o ToString(idx), text |-> TextAt(idx)]

\* len(dataset)
SplitSize(split) == IF split = "train" THEN TrainSize ELSE ValSize

\* modules.py:21-26, ImageCaptioningDataset.__getitem__: the image becomes a patch
\* tensor and a mask of max_patches rows each, the text is attached unchanged
GetItem(ds, idx) ==
    LET item == RawItem(ds.split, idx)
    IN  [flattened_patches |-> Tensor(<<ds.max_patches>>, item.image),
         attention_mask |-> Tensor(<<ds.max_patches>>, item.image),
         text |-> item.text]

\* modules.py:29-42, BenetechDataModule.__init__; the splits are not assigned yet
BenetechDataModule(data_dir, processor_path, batch_size, max_length, num_workers, max_patches) ==
    [exists |-> TRUE,
     hparams |-> [data_dir |-> data_dir, processor_path |-> processor_path,
                  batch_size |-> batch_size, max_length |-> max_length,
                  num_workers |-> num_workers, max_patches |-> max_patches],
     processor |-> processor_path,
     train_dataset |-> Unset,
     val_dataset |-> Unset]

NoDataModule ==
    [exists |-> FALSE,
     hparams |-> [data_dir |-> "", processor_path |-> "", batch_size |-> 0,
                  max_length |-> 0, num_workers |-> 0, max_patches |-> 0],
     processor |-> None,
     train_dataset |-> Unset,
     val_dataset |-> Unset]

\* modules.py:57-69, _dataset
Dataset(d, train) ==
    [split |-> IF train = TRUE THEN "train" ELSE "validation",
     data_dir |-> d.hparams.data_dir,
     processor |-> d.processor,
     max_patches |-> d.hparams.max_patches]

\* modules.py:50-52, the first branch of setup
SetupFit(d, stage) ==
    IF stage = "fit"
    THEN [d EXCEPT !.train_dataset = Dataset(d, TRUE), !.val_dataset = Dataset(d, FALSE)]
    ELSE d

\* modules.py:54-55, the second branch of setup
SetupTest(d, stage) ==
    IF stage = "test" THEN [d EXCEPT !.val_dataset = Dataset(d, FALSE)] ELSE d

\* modules.py:49-55, setup
setup(d, stage) == SetupTest(SetupFit(d, stage), stage)

\* the mutant of Dataloader: every pipeline shuffles
DataloaderAlwaysShuffles(d, dataset, train) ==
    [dataset |-> dataset,
     shuffle |-> TRUE,
     batch_size |-> d.hparams.batch_size,
     collate_fn |-> "collator",
     num_workers |-> d.hparams.num_workers,
     pin_memory |-> TRUE]

\* modules.py:80-88, _dataloader
Dataloader(d, dataset, train) ==
    [dataset |-> dataset,
     shuffle |-> train,
     batch_size |-> d.hparams.batch_size,
     collate_fn |-> "collator",
     num_workers |-> d.hparams.num_workers,
     pin_memory |-> TRUE]

\* modules.py:71-72
train_dataloader(d) == Dataloader(d, d.train_dataset, TRUE)
\* modules.py:74-75
val_dataloader(d) == Dataloader(d, d.val_dataset, FALSE)
\* modules.py:77-78
test_dataloader(d) == Dataloader(d, d.val_dataset, FALSE)

\* the attribute a dataloader builder reads
LoaderAttribute(name) == IF name = "train" THEN "train_dataset" ELSE "val_dataset"

\* the builder of a pipeline, by name
BuildLoader(d, name) ==
    CASE name = "train" -> train_dataloader(d)
      [] name = "val" -> val_dataloader(d)
      [] name = "test" -> test_dataloader(d)

-----------------------------------------------------------------------------
(* benetech_decoder/modules.py: the collator                               *)

\* the text processor's special tokens and vocabulary
SpecialTokens == [pad |-> 0, eos |-> 1]
TokenId(c) == IF c = "a" THEN 3 ELSE 4

\* modules.py:99-106, one text under add_special_tokens=True, truncation=True,
\* max_length: the ids, then the end-of-sequence token, cut to max_length with the
\* end-of-sequence token kept
Tokenize(text, max_length) ==
    LET ids == [i \in 1..Len(text) |-> TokenId(text[i])]
    IN  IF Len(ids) + 1 > max_length
        THEN SubSeq(ids, 1, max_length - 1) \o <<SpecialTokens.eos>>
        ELSE ids \o <<SpecialTokens.eos>>

\* the longest of a non-empty list of sequences
Longest(seqs) == CHOOSE n \in {Len(seqs[i]) : i \in DOMAIN seqs} :
                    \A i \in DOMAIN seqs : Len(seqs[i]) <= n

\* the mutant of PadTarget: padding="max_length"
PadToMaxLength(toks, max_length) == max_length

\* modules.py:101, padding="longest": the length every row is padded to
PadTarget(toks, max_length) == Longest(toks)

Pad(ids, n) == ids \o [i \in 1..(n - Len(ids)) |-> SpecialTokens.pad]

\* modules.py:99-108, self.processor(text=texts, ...).input_ids
InputIds(texts, max_length) ==
    LET toks == [i \in DOMAIN texts |-> Tokenize(texts[i], max_length)]
        n == PadTarget(toks, max_length)
    IN  Tensor(<<Len(texts), n>>, [i \in DOMAIN texts |-> Pad(toks[i], n)])

\* torch.stack raises unless every tensor has the shape of the first
Stackable(tensors) == \A i \in DOMAIN tensors : tensors[i].shape = tensors[1].shape

\* modules.py:115-116, torch.stack: a new leading dimension, item i at position i
Stack(tensors) ==
    Tensor(<<Len(tensors)>> \o tensors[1].shape, [i \in DOMAIN tensors |-> tensors[i].data])

\* modules.py:90-117, collator, for a non-empty list of encoded samples
collator(d, batch) ==
    LET texts == [i \in DOMAIN batch |-> batch[i].text]
        patches == [i \in DOMAIN batch |-> batch[i].flattened_patches]
        masks == [i \in DOMAIN batch |-> batch[i].attention_mask]
    IN  IF Stackable(patches) /\ Stackable(masks)
        THEN [raised |-> None,
              labels |-> InputIds(texts, d.hparams.max_length),
              texts |-> texts,
              flattened_patches |-> Stack(patches),
              attention_mask |-> Stack(masks)]
        ELSE [raised |-> "RuntimeError",
              labels |-> InputIds(texts, d.hparams.max_length),
              texts |-> texts,
              flattened_patches |-> Tensor(<<>>, <<>>),
              attention_mask |-> Tensor(<<>>, <<>>)]

\* len(tensor): the leading dimension
TensorLen(t) == t.shape[1]

-----------------------------------------------------------------------------
(* benetech_decoder/metrics.py, BenetechMetric: the accumulator of         *)
(* (ground truth, prediction) pairs and its aggregate score                *)

\* BenetechMetric(): nothing accumulated
MetricInit == <<>>

\* metric(ground_truths, predictions): the pairs are added to the accumulator
MetricUpdate(acc, gts, preds) ==
    acc \o [i \in 1..Min(Len(gts), Len(preds)) |-> <<gts[i], preds[i]>>]

\* metric.compute(): the aggregate over everything accumulated, in percent
MetricCompute(acc) ==
    IF acc = <<>> THEN 0
    ELSE (100 * Cardinality({i \in DOMAIN acc : acc[i][1] = acc[i][2]})) \div Len(acc)

-----------------------------------------------------------------------------
(* benetech_decoder/modules.py: the training/evaluation module             *)

\* one thing a handler did: a call or a logged metric
Event(op, name, value, n, args) ==
    [op |-> op, name |-> name, value |-> value, n |-> n, args |-> args]

NoModel == [name |-> None, is_decoder |-> FALSE]

\* the mutant of InitModel: every identifier is accepted
InitModelAcceptsAll(model_path) ==
    [raised |-> None, model |-> [name |-> "google/deplot", is_decoder |-> TRUE]]

\* modules.py:137-147, _init_model
InitModel(model_path) ==
    IF model_path = "google/deplot"
    THEN [raised |-> None, model |-> [name |-> "google/deplot", is_decoder |-> TRUE]]
    ELSE [raised |-> "ValueError", model |-> NoModel]

\* modules.py:155-159, _init_metrics
InitMetrics == [benetech |-> MetricInit]

NoModule ==
    [exists |-> FALSE,
     hparams |-> [learning_rate |-> "", max_length |-> 0, model_path |-> "",
                  model_save_dir |-> "", run_name |-> None, save_model |-> FALSE],
     model |-> NoModel,
     processor |-> None,
     validation_step_outputs |-> <<>>,
     metrics |-> InitMetrics]

\* modules.py:120-135, BenetechModule.__init__: a raise in _init_model leaves no module
BenetechModule(learning_rate, max_length, model_path, model_save_dir, processor, run_name, save_model) ==
    LET m == InitModel(model_path)
    IN  IF m.raised # None
        THEN [raised |-> m.raised, module |-> NoModule]
        ELSE [raised |-> None,
              module |-> [exists |-> TRUE,
                          hparams |-> [learning_rate |-> learning_rate,
                                       max_length |-> max_length,
                                       model_path |-> model_path,
                                       model_save_dir |-> model_save_dir,
                                       run_name |-> run_name,
                                       save_model |-> save_model],
                          model |-> m.model,
                          processor |-> processor,
                          validation_step_outputs |-> <<>>,
                          metrics |-> InitMetrics]]

\* modules.py:149-153 and 161-165, configure_optimizers
configure_optimizers(m) ==
    [optimizer |-> [class |-> "AdamW", params |-> m.model.name, lr |-> m.hparams.learning_rate]]

\* modules.py:210-211, _log
Log(stage, loss, batch_size) == Event("log", stage \o "_loss", loss, batch_size, <<>>)

\* the mutant of StageIsValid: the scoring branch is taken in every stage
StageIsAlwaysValid(stage) == TRUE

\* modules.py:188, the test that selects the scoring branch
StageIsValid(stage) == stage = "valid"

\* the mutant of GroundTruths: the last text is lost
GroundTruthsDropLast(batch) == SubSeq(batch.texts, 1, Len(batch.texts) - 1)

\* modules.py:202, ground_truths = batch.pop("texts")
GroundTruths(batch) == batch.texts

\* modules.py:173-208, _shared_step. loss is outputs.loss of the forward pass and
\* generated[i] the text the model generates for row i of the patches
SharedStep(m, batch, stage, loss, generated) ==
    LET labels == batch.labels
        flattened_patches == batch.flattened_patches
        forward == Event("forward", "model", loss, TensorLen(flattened_patches), <<>>)
        logLoss == Log(stage, loss, TensorLen(labels))
    IN  IF StageIsValid(stage)
        THEN LET rows == TensorLen(flattened_patches)
                 generate == Event("generate", "model", m.hparams.max_length, rows, <<>>)
                 predictions == [i \in 1..rows |-> generated[i]]
                 decode == Event("batch_decode", "processor", 0, Len(predictions), <<>>)
                 ground_truths == GroundTruths(batch)
                 acc == MetricUpdate(m.metrics.benetech, ground_truths, predictions)
                 update == Event("metric", "benetech", 0, Len(ground_truths),
                                 <<ground_truths, predictions>>)
                 logScore == Event("log", "benetech_score", MetricCompute(acc),
                                   TensorLen(labels), <<>>)
             IN  [module |-> [m EXCEPT !.metrics.benetech = acc],
                  events |-> <<forward, logLoss, generate, decode, update, logScore>>,
                  ret |-> <<>>]
        ELSE [module |-> m,
              events |-> <<forward, logLoss>>,
              ret |-> <<loss>>]

\* the mutant of validation_step: the step's result is kept in the container
validation_step_keeps(m, batch, loss, generated) ==
    LET r == SharedStep(m, batch, "valid", loss, generated)
    IN  [module |-> [r.module EXCEPT !.validation_step_outputs = Append(@, r.ret)],
         events |-> r.events,
         ret |-> <<>>]

\* modules.py:167-168, validation_step: pred is dropped and nothing is returned
validation_step(m, batch, loss, generated) ==
    LET r == SharedStep(m, batch, "valid", loss, generated)
    IN  [module |-> r.module, events |-> r.events, ret |-> <<>>]

\* modules.py:170-171, training_step
training_step(m, batch, loss, generated) == SharedStep(m, batch, "train", loss, generated)

\* modules.py:215, the path handed to save_pretrained
SavePath(m) == m.hparams.model_save_dir \o m.hparams.run_name \o ".pt"

\* the mutant of on_train_end: the save flag is not read
on_train_end_always_saves(m, fs) == fs \cup {SavePath(m)}

\* modules.py:213-216, on_train_end
on_train_end(m, fs) ==
    IF m.hparams.save_model = TRUE THEN fs \cup {SavePath(m)} ELSE fs

\* modules.py:218-222, on_validation_epoch_end
on_validation_epoch_end(m) == [m EXCEPT !.validation_step_outputs = <<>>]

-----------------------------------------------------------------------------
(* benetech_pl/train.py and the trainer's fit loop                         *)

NoTrainer ==
    [exists |-> FALSE, fast_dev_run |-> FALSE, max_epochs |-> 0,
     num_sanity_val_steps |-> 0, accumulate_grad_batches |-> 0]

\* train.py:40-54, pl.Trainer(...): a fast_dev_run trainer runs one epoch of one
\* batch per loop and no sanity check
Trainer(cfg) ==
    [exists |-> TRUE,
     fast_dev_run |-> cfg.fast_dev_run,
     max_epochs |-> IF cfg.fast_dev_run THEN 1 ELSE cfg.epochs,
     num_sanity_val_steps |-> IF cfg.fast_dev_run THEN 0 ELSE 1,
     accumulate_grad_batches |-> cfg.accumulate_grad_batches]

\* train.py:24, the metrics the logger and callbacks are set up to monitor
MonitoredMetrics == {"val_loss", "train_loss"}

\* the last handler called, the sample indices of its batch and what it did
NoTrace == [handler |-> "none", indices |-> <<>>, events |-> <<>>]

\* the names a handler logged
LoggedNames(events) == {events[i].name : i \in {j \in DOMAIN events : events[j].op = "log"}}

\* batches a pipeline yields in one pass
NumBatches(loader) == CeilDiv(SplitSize(loader.dataset.split), loader.batch_size)

\* the sample indices of a pipeline's k-th batch (k from 0): the next batch_size
\* indices in order, or, shuffled, that many distinct indices
BatchIndices(loader, k) ==
    LET size == SplitSize(loader.dataset.split)
        lo == k * loader.batch_size
        n == Min(loader.batch_size, size - lo)
    IN  IF loader.shuffle
        THEN {s \in [1..n -> 1..size] : \A i, j \in 1..n : i # j => s[i] # s[j]}
        ELSE {[i \in 1..n |-> lo + i]}

\* the batch a pipeline makes of sample indices: collate_fn over the items
LoadBatch(d, loader, indices) ==
    collator(d, [i \in DOMAIN indices |-> GetItem(loader.dataset, indices[i])])

\* the texts the model may generate
Generations == {TextAt(1), TextAt(2)}

\* batches the fit loop takes from a pipeline in one pass
LimitBatches(t, loader) == IF t.fast_dev_run THEN Min(1, NumBatches(loader)) ELSE NumBatches(loader)

\* batches of the sanity check
SanityBatches(t, loader) == Min(t.num_sanity_val_steps, NumBatches(loader))

Init ==
    /\ pc = "main"
    /\ argv \in CommandLines
    /\ \E mp \in ModelPaths, sm \in SaveFlags :
          config = [DefaultConfig EXCEPT !.model_path = mp, !.save_model = sm]
    /\ seeded = None
    /\ dm = NoDataModule
    /\ loaders = <<>>
    /\ logger = None
    /\ monitored = {}
    /\ module = NoModule
    /\ trainer = NoTrainer
    /\ optimizer = None
    /\ files = {}
    /\ raised = None
    /\ epoch = 0
    /\ batch_idx = 0
    /\ trace = NoTrace
    /\ ret = <<>>
    /\ logged = {}
    /\ cin = <<>>
    /\ cout = None

\* main.py:52, config = parse_args()
ParseArgs ==
    /\ pc = "main"
    /\ config' = parse_args(config, argv)
    /\ pc' = "parsed"
    /\ UNCHANGED <<argv, seeded, dm, loaders, logger, monitored, module, trainer,
                   optimizer, files, raised, epoch, batch_idx, trace, ret, logged, cin, cout>>

\* train.py:8
SeedEverything ==
    /\ pc = "parsed"
    /\ seeded' = config.seed
    /\ pc' = "seeded"
    /\ UNCHANGED <<argv, config, dm, loaders, logger, monitored, module, trainer,
                   optimizer, files, raised, epoch, batch_idx, trace, ret, logged, cin, cout>>

\* train.py:13-20
BuildDataModule ==
    /\ pc = "seeded"
    /\ dm' = BenetechDataModule(config.data_dir, config.processor_path, config.batch_size,
                                config.max_length, config.num_workers, config.max_patches)
    /\ pc' = "data_module"
    /\ UNCHANGED <<argv, config, seeded, loaders, logger, monitored, module, trainer,
                   optimizer, files, raised, epoch, batch_idx, trace, ret, logged, cin, cout>>

\* train.py:22-27 and 35: the helper gives a logger with a run name, or none
LoadLoggerAndCallbacks ==
    /\ pc = "data_module"
    /\ logger' \in RunNames \cup {None}
    /\ monitored' = MonitoredMetrics
    /\ pc' = "logger"
    /\ UNCHANGED <<argv, config, seeded, dm, loaders, module, trainer,
                   optimizer, files, raised, epoch, batch_idx, trace, ret, logged, cin, cout>>

\* train.py:29-37: the module is built, or its constructor raises and train() ends
BuildModule ==
    /\ pc = "logger"
    /\ LET r == BenetechModule(config.learning_rate, config.max_length, config.model_path,
                               config.model_save_dir, dm.processor, logger, config.save_model)
       IN  /\ module' = r.module
           /\ raised' = r.raised
           /\ pc' = IF r.raised # None THEN "raised" ELSE "module"
    /\ UNCHANGED <<argv, config, seeded, dm, loaders, logger, monitored, trainer,
                   optimizer, files, epoch, batch_idx, trace, ret, logged, cin, cout>>

\* train.py:40-54
BuildTrainer ==
    /\ pc = "module"
    /\ trainer' = Trainer(config)
    /\ pc' = "trainer"
    /\ UNCHANGED <<argv, config, seeded, dm, loaders, logger, monitored, module,
                   optimizer, files, raised, epoch, batch_idx, trace, ret, logged, cin, cout>>

\* train.py:56, trainer.fit: the data module is set up for stage "fit"
FitSetup ==
    /\ pc = "trainer"
    /\ dm' = setup(dm, "fit")
    /\ pc' = "configure"
    /\ UNCHANGED <<argv, config, seeded, loaders, logger, monitored, module, trainer,
                   optimizer, files, raised, epoch, batch_idx, trace, ret, logged, cin, cout>>

\* trainer.fit: the optimizer is configured; the sanity check follows unless disabled
ConfigureOptimizers ==
    /\ pc = "configure"
    /\ optimizer' = configure_optimizers(module).optimizer.class
    /\ pc' = IF trainer.num_sanity_val_steps > 0 THEN "sanity_loader" ELSE "train_loader"
    /\ UNCHANGED <<argv, config, seeded, dm, loaders, logger, monitored, module, trainer,
                   files, raised, epoch, batch_idx, trace, ret, logged, cin, cout>>

\* trainer.fit: the sanity check builds the validation pipeline
SanityLoader ==
    /\ pc = "sanity_loader"
    /\ loaders' = [n \in {"val"} |-> BuildLoader(dm, n)]
    /\ batch_idx' = 0
    /\ pc' = "sanity"
    /\ UNCHANGED <<argv, config, seeded, dm, logger, monitored, module, trainer,
                   optimizer, files, raised, epoch, trace, ret, logged, cin, cout>>

\* batches of the validation pass under way
ValLimit ==
    IF pc = "sanity" THEN SanityBatches(trainer, loaders["val"])
    ELSE LimitBatches(trainer, loaders["val"])

\* trainer.fit: one validation step, of the sanity check or of an epoch
ValidationStep ==
    /\ pc \in {"sanity", "val"}
    /\ batch_idx < ValLimit
    /\ \E indices \in BatchIndices(loaders["val"], batch_idx), loss \in Losses :
       \E generated \in [DOMAIN indices -> Generations] :
          LET batch == LoadBatch(dm, loaders["val"], indices)
              r == validation_step(module, batch, loss, generated)
          IN  /\ module' = r.module
              /\ trace' = [handler |-> "validation_step", indices |-> indices, events |-> r.events]
              /\ ret' = r.ret
              /\ logged' = logged \cup LoggedNames(r.events)
    /\ batch_idx' = batch_idx + 1
    /\ UNCHANGED <<pc, argv, config, seeded, dm, loaders, logger, monitored, trainer,
                   optimizer, files, raised, epoch, cin, cout>>

\* trainer.fit: the end of a validation pass; after the last epoch the fit ends
ValidationEpochEnd ==
    /\ pc \in {"sanity", "val"}
    /\ batch_idx = ValLimit
    /\ module' = on_validation_epoch_end(module)
    /\ trace' = [handler |-> "on_validation_epoch_end", indices |-> <<>>, events |-> <<>>]
    /\ IF pc = "sanity"
       THEN pc' = "train_loader" /\ epoch' = epoch
       ELSE /\ epoch' = epoch + 1
            /\ pc' = IF epoch + 1 < trainer.max_epochs THEN "train" ELSE "train_end"
    /\ batch_idx' = 0
    /\ UNCHANGED <<argv, config, seeded, dm, loaders, logger, monitored, trainer,
                   optimizer, files, raised, ret, logged, cin, cout>>

\* trainer.fit: the fit loop builds the train pipeline
TrainLoader ==
    /\ pc = "train_loader"
    /\ loaders' = [n \in DOMAIN loaders \cup {"train"} |->
                      IF n = "train" THEN BuildLoader(dm, n) ELSE loaders[n]]
    /\ batch_idx' = 0
    /\ pc' = "train"
    /\ UNCHANGED <<argv, config, seeded, dm, logger, monitored, module, trainer,
                   optimizer, files, raised, epoch, trace, ret, logged, cin, cout>>

\* trainer.fit: one training step
TrainingStep ==
    /\ pc = "train"
    /\ batch_idx < LimitBatches(trainer, loaders["train"])
    /\ \E indices \in BatchIndices(loaders["train"], batch_idx), loss \in Losses :
       \E generated \in [DOMAIN indices -> Generations] :
          LET batch == LoadBatch(dm, loaders["train"], indices)
              r == training_step(module, batch, loss, generated)
          IN  /\ module' = r.module
              /\ trace' = [handler |-> "training_step", indices |-> indices, events |-> r.events]
              /\ ret' = r.ret
              /\ logged' = logged \cup LoggedNames(r.events)
    /\ batch_idx' = batch_idx + 1
    /\ UNCHANGED <<pc, argv, config, seeded, dm, loaders, logger, monitored, trainer,
                   optimizer, files, raised, epoch, cin, cout>>

\* trainer.fit: the epoch's training batches are done and its validation pass
\* starts, on the validation pipeline built by the sanity check or built now
StartValidation ==
    /\ pc = "train"
    /\ batch_idx = LimitBatches(trainer, loaders["train"])
    /\ loaders' = [n \in DOMAIN loaders \cup {"val"} |->
                      IF n \in DOMAIN loaders THEN loaders[n] ELSE BuildLoader(dm, n)]
    /\ batch_idx' = 0
    /\ pc' = "val"
    /\ UNCHANGED <<argv, config, seeded, dm, logger, monitored, module, trainer,
                   optimizer, files, raised, epoch, trace, ret, logged, cin, cout>>

\* trainer.fit: the fit ends with the train-end hook
TrainEnd ==
    /\ pc = "train_end"
    /\ files' = on_train_end(module, files)
    /\ trace' = [handler |-> "on_train_end", indices |-> <<>>, events |-> <<>>]
    /\ pc' = "done"
    /\ UNCHANGED <<argv, config, seeded, dm, loaders, logger, monitored, module, trainer,
                   optimizer, raised, epoch, batch_idx, ret, logged, cin, cout>>

Next ==
    \/ ParseArgs
    \/ SeedEverything
    \/ BuildDataModule
    \/ LoadLoggerAndCallbacks
    \/ BuildModule
    \/ BuildTrainer
    \/ FitSetup
    \/ ConfigureOptimizers
    \/ SanityLoader
    \/ ValidationStep
    \/ ValidationEpochEnd
    \/ TrainLoader
    \/ TrainingStep
    \/ StartValidation
    \/ TrainEnd

Spec == Init /\ [][Next]_vars

-----------------------------------------------------------------------------
(* SpecData: the data orchestrator's interface, called in any order        *)

\* the stages a trainer hands to setup
Stages == {"fit", "validate", "test", "predict"}

LoaderNames == {"train", "val", "test"}

NoCommandLine ==
    [fast_dev_run |-> <<>>, seed |-> <<>>, batch_size |-> <<>>,
     accumulate_grad_batches |-> <<>>, max_patches |-> <<>>]

InitData ==
    /\ pc = "data"
    /\ argv = NoCommandLine
    /\ config = DefaultConfig
    /\ seeded = None
    /\ \E bs \in DataBatchSizes, nw \in DataWorkers :
          dm = BenetechDataModule(config.data_dir, config.processor_path, bs,
                                  config.max_length, nw, config.max_patches)
    /\ loaders = <<>>
    /\ logger = None
    /\ monitored = {}
    /\ module = NoModule
    /\ trainer = NoTrainer
    /\ optimizer = None
    /\ files = {}
    /\ raised = None
    /\ epoch = 0
    /\ batch_idx = 0
    /\ trace = NoTrace
    /\ ret = <<>>
    /\ logged = {}
    /\ cin = <<>>
    /\ cout = None

\* modules.py:49-55, setup(stage)
DataSetup ==
    /\ pc = "data"
    /\ \E stage \in Stages :
          /\ dm' = setup(dm, stage)
          /\ trace' = [handler |-> "setup", indices |-> <<>>,
                       events |-> <<Event("setup", stage, 0, 0, <<>>)>>]
    /\ UNCHANGED <<pc, argv, config, seeded, loaders, logger, monitored, module, trainer,
                   optimizer, files, raised, epoch, batch_idx, ret, logged, cin, cout>>

\* modules.py:71-78, train_dataloader, val_dataloader and test_dataloader: reading
\* a split that was never assigned raises AttributeError
DataLoaderCall ==
    /\ pc = "data"
    /\ \E name \in LoaderNames :
          /\ trace' = [handler |-> name \o "_dataloader", indices |-> <<>>, events |-> <<>>]
          /\ IF dm[LoaderAttribute(name)] = Unset
             THEN /\ raised' = "AttributeError"
                  /\ pc' = "raised"
                  /\ loaders' = loaders
             ELSE /\ raised' = raised
                  /\ pc' = pc
                  /\ loaders' = [n \in DOMAIN loaders \cup {name} |->
                                    IF n = name THEN BuildLoader(dm, n) ELSE loaders[n]]
    /\ UNCHANGED <<argv, config, seeded, dm, logger, monitored, module, trainer,
                   optimizer, files, epoch, batch_idx, ret, logged, cin, cout>>

NextData ==
    \/ DataSetup
    \/ DataLoaderCall

SpecData == InitData /\ [][NextData]_vars

-----------------------------------------------------------------------------
(* SpecCollate: the collator over lists of encoded samples                 *)

\* the encoded samples the collator is tried on
EncodedSamples ==
    {[flattened_patches |-> Tensor(<<p>>, img),
      attention_mask |-> Tensor(<<p>>, img),
      text |-> t] : p \in PatchShapes, img \in Images, t \in SeqsUpTo(Vocab, MaxTextLen)}

InitCollate ==
    /\ pc = "collate"
    /\ argv = NoCommandLine
    /\ config = DefaultConfig
    /\ seeded = None
    /\ \E ml \in MaxLengths :
          dm = BenetechDataModule(config.data_dir, config.processor_path, config.batch_size,
                                  ml, config.num_workers, config.max_patches)
    /\ loaders = <<>>
    /\ logger = None
    /\ monitored = {}
    /\ module = NoModule
    /\ trainer = NoTrainer
    /\ optimizer = None
    /\ files = {}
    /\ raised = None
    /\ epoch = 0
    /\ batch_idx = 0
    /\ trace = NoTrace
    /\ ret = <<>>
    /\ logged = {}
    /\ cin \in UNION {[1..n -> EncodedSamples] : n \in 1..MaxCollate}
    /\ cout = None

\* modules.py:85, collate_fn = self.collator: the pipeline hands it a list of items
Collate ==
    /\ pc = "collate"
    /\ cout' = collator(dm, cin)
    /\ raised' = cout'.raised
    /\ pc' = "collated"
    /\ trace' = [handler |-> "collator", indices |-> <<>>, events |-> <<>>]
    /\ UNCHANGED <<argv, config, seeded, dm, loaders, logger, monitored, module, trainer,
                   optimizer, files, epoch, batch_idx, ret, logged, cin>>

NextCollate == Collate

SpecCollate == InitCollate /\ [][NextCollate]_vars

-----------------------------------------------------------------------------
(* The claims                                                              *)

Accepted == "google/deplot"

\* C1: once parse_args has returned, every flag that was not given on the command
\* line has, in the configuration, the default of the same-named field.
C1_UnsetFlagsKeepDefaults ==
    pc # "main" => \A k \in Flags : argv[k] = <<>> => config[k] = DefaultConfig[k]

\* C2: with any model identifier but the accepted one, constructing the module
\* raises ValueError and leaves no module; the run never gets past the
\* construction, so no split is loaded, no trainer is built and no fit step runs.
\* ValueError is raised for no accepted identifier.
C2_UnsupportedModelRaisesBeforeData ==
    /\ config.model_path # Accepted =>
          /\ pc \in {"main", "parsed", "seeded", "data_module", "logger", "raised"}
          /\ pc = "raised" => raised = "ValueError"
          /\ ~module.exists
          /\ dm.train_dataset = Unset /\ dm.val_dataset = Unset
          /\ loaders = <<>>
          /\ ~trainer.exists
          /\ trace = NoTrace
    /\ raised = "ValueError" => config.model_path # Accepted

C2_Witness ==
    /\ pc = "raised"
    /\ raised = "ValueError"
    /\ config.model_path # Accepted
    /\ dm.exists

\* C3: a saved-model artifact exists exactly when on_train_end has run with the
\* save flag true, and it is then the one path <model_save_dir><run_name>.pt; with
\* the flag false no state of the run holds an artifact.
C3_ArtifactOnlyAtTrainEndWithSaveFlag ==
    files = IF trace.handler = "on_train_end" /\ config.save_model = TRUE
            THEN {config.model_save_dir \o logger \o ".pt"}
            ELSE {}

C3_Witness ==
    /\ pc = "done"
    /\ config.save_model = TRUE
    /\ logger \in RunNames
    /\ files = {"/data/bartley/gpu_test/models/run-1.pt"}

\* C4: when a validation pass starts (its first validation step is the next to
\* run), the metric accumulator holds no pair of an earlier pass: it is empty.
C4_MetricEmptyAtValidationPassStart ==
    (pc \in {"sanity", "val"} /\ batch_idx = 0) => module.metrics.benetech = <<>>

\* the ground-truth texts of a validation batch, from the split on disk
C5_Texts(indices) == [i \in DOMAIN indices |-> RawItem("validation", indices[i]).text]

\* C5: a validation step on a batch of N samples does, in this order: the forward
\* pass, the log of "valid_loss" (the forward loss), generation, decoding, one
\* metric update with the batch's N texts and N predictions, and the log of
\* "benetech_score", the score over everything accumulated; it returns None.
C5_ValidationStepOrder ==
    trace.handler = "validation_step" =>
        LET e == trace.events
            N == Len(trace.indices)
        IN  /\ [i \in DOMAIN e |-> e[i].op] =
                   <<"forward", "log", "generate", "batch_decode", "metric", "log">>
            /\ e[2].name = "valid_loss" /\ e[2].value = e[1].value
            /\ e[3].n = N /\ e[4].n = N
            /\ e[5].args[1] = C5_Texts(trace.indices)
            /\ Len(e[5].args[2]) = N
            /\ e[6].name = "benetech_score"
            /\ e[6].value = MetricCompute(module.metrics.benetech)
            /\ ret = <<>>

C5_Witness ==
    /\ trace.handler = "validation_step"
    /\ pc = "val"
    /\ Len(trace.indices) = 2
    /\ Len(module.metrics.benetech) > 2

\* C6: a training step returns the loss of the forward pass and logs exactly one
\* metric, "train_loss", with the batch's number of samples as batch size; it does
\* nothing else (no generation, no "benetech_score"), and the metric accumulator
\* changes only in a validation step.
C6_TrainingStepFrame ==
    [][/\ trace'.handler = "training_step" =>
              LET e == trace'.events
              IN  /\ [i \in DOMAIN e |-> e[i].op] = <<"forward", "log">>
                  /\ e[2].name = "train_loss"
                  /\ e[2].value = e[1].value
                  /\ e[2].n = Len(trace'.indices)
                  /\ ret' = <<e[1].value>>
       /\ module'.metrics # module.metrics =>
              /\ pc \in {"sanity", "val"}
              /\ trace'.handler = "validation_step"
       /\ (pc = "train" /\ batch_idx' = batch_idx + 1) =>
              /\ trace'.handler = "training_step"
              /\ module'.metrics = module.metrics]_vars

C6_Witness ==
    /\ trace.handler = "training_step"
    /\ Len(trace.indices) = 2
    /\ module.metrics.benetech # <<>>
    /\ ret \in {<<1>>, <<2>>}

\* the samples handed to the collator share one patch-tensor shape
C7_SameShape ==
    \A i \in DOMAIN cin :
        /\ cin[i].flattened_patches.shape = cin[1].flattened_patches.shape
        /\ cin[i].attention_mask.shape = cin[1].attention_mask.shape

\* the length of the longest tokenized text: its characters and the end token
C7_LongestTokenized ==
    CHOOSE n \in {Len(cin[i].text) + 1 : i \in DOMAIN cin} :
        \A i \in DOMAIN cin : Len(cin[i].text) + 1 <= n

\* C7: for a non-empty list of N encoded samples of one patch-tensor shape the
\* collator returns a batch whose flattened_patches and attention_mask have leading
\* dimension N with sample i at position i, whose texts are the N texts in input
\* order, and whose labels have N rows of the common length
\* min(longest tokenized text, max_length).
C7_CollatorBatchShape ==
    (pc = "collated" /\ C7_SameShape) =>
        LET N == Len(cin)
            L == Min(C7_LongestTokenized, dm.hparams.max_length)
        IN  /\ cout.raised = None
            /\ cout.flattened_patches.shape = <<N>> \o cin[1].flattened_patches.shape
            /\ cout.attention_mask.shape = <<N>> \o cin[1].attention_mask.shape
            /\ \A i \in 1..N :
                  /\ cout.flattened_patches.data[i] = cin[i].flattened_patches.data
                  /\ cout.attention_mask.data[i] = cin[i].attention_mask.data
                  /\ cout.texts[i] = cin[i].text
            /\ Len(cout.texts) = N
            /\ cout.labels.shape = <<N, L>>
            /\ Len(cout.labels.data) = N
            /\ \A i \in 1..N : Len(cout.labels.data[i]) = L

C7_Witness ==
    /\ pc = "collated"
    /\ C7_SameShape
    /\ Len(cin) = 2
    /\ cin[1].text # cin[2].text
    /\ C7_LongestTokenized > dm.hparams.max_length
    /\ cout.labels.shape = <<2, dm.hparams.max_length>>

\* C8: after setup("fit") the train and the validation split are held, after
\* setup("test") the validation split; every pipeline built uses the collator, the
\* configured batch size and worker count; the train pipeline alone shuffles, over
\* the train split, and the validation and test pipelines run over the validation
\* split in order.
C8_SplitsAndPipelines ==
    /\ (trace.handler = "setup" /\ trace.events[1].name = "fit") =>
          /\ dm.train_dataset.split = "train"
          /\ dm.val_dataset.split = "validation"
    /\ (trace.handler = "setup" /\ trace.events[1].name = "test") =>
          dm.val_dataset.split = "validation"
    /\ \A name \in DOMAIN loaders :
          /\ loaders[name].collate_fn = "collator"
          /\ loaders[name].batch_size = dm.hparams.batch_size
          /\ loaders[name].num_workers = dm.hparams.num_workers
          /\ loaders[name].shuffle = (name = "train")
          /\ loaders[name].dataset.split = IF name = "train" THEN "train" ELSE "validation"

C8_Witness ==
    /\ DOMAIN loaders = {"train", "val", "test"}
    /\ trace.handler = "setup"
    /\ trace.events[1].name = "test"

\* C9: the validation-step output container is empty in every state of the run.
C9_ValidationOutputsAlwaysEmpty ==
    module.validation_step_outputs = <<>>

C9_Witness ==
    /\ trace.handler = "on_validation_epoch_end"
    /\ pc = "train_end"
    /\ module.metrics.benetech # <<>>

\* C10: when the run is done, every metric name the driver asked to monitor has
\* been logged by some training or validation step.
C10_MonitoredMetricsAreLogged ==
    pc = "done" => monitored \subseteq logged

=============================================================================
